---- MODULE Spec2Model ----
(***************************************************************************)
(* s3du (src/s3du/main.py): list S3 objects into a CSV cache, build a      *)
(* directory tree from the cached rows, serialise it in ncdu's export      *)
(* format and launch ncdu on the result.                                   *)
(*                                                                         *)
(* Python strings are modelled as sequences of one-character strings, so   *)
(* that split("/"), str(int), int(str) and the csv encoding are computed   *)
(* and not assumed.  A JSON array is the record [arr |-> <<...>>], a JSON  *)
(* object is a record with the object's keys.                              *)
(***************************************************************************)
EXTENDS Integers, Sequences, FiniteSets, TLC

VARIABLES
    cache,      \* ~/.cache/s3du-cache.csv: existence, lines, mtime (+ history fields)
    now,        \* time.time()
    runs,       \* number of program runs started so far
    args,       \* the parsed command line of the current run (self.* of __init__)
    pc,         \* position of the current run in s3du.main
    lst,        \* cache_files: loop state (remaining buckets, continuation token)
    files,      \* result of list_files
    tree,       \* result of parse_list
    ncdu,       \* result of convert_tree
    outfile,    \* the output file self.filename on disk
    viewer,     \* the ncdu subprocess: launches of this run and its outcome
    err         \* the exception that ended the run, "" when none

vars == <<cache, now, runs, args, pc, lst, files, tree, ncdu, outfile, viewer, err>>

----------------------------------------------------------------------------
(* Bounds of the model *)

\* number of program runs in one behaviour
MaxRuns == 2
\* objects per list_objects_v2 page (MaxKeys is 1000 in the program)
PageSize == 2
\* length of the input sequences given to parse_list on its own
MaxFiles == 3

----------------------------------------------------------------------------
(* Strings *)

\* Python's None, a value no string of characters equals
None == <<"None">>

EmptyStr == <<>>

SLASH == "/"

COMMA == ","

QUOTE == "\""

DigitChar == <<"0", "1", "2", "3", "4", "5", "6", "7", "8", "9">>

StartsWith(s, p) == Len(s) >= Len(p) /\ SubSeq(s, 1, Len(p)) = p

EndsWith(s, p) == Len(s) >= Len(p) /\ SubSeq(s, Len(s) - Len(p) + 1, Len(s)) = p

\* str.split(sep): the fields between the separators, always at least one
split(s, sep) ==
    LET RECURSIVE go(_, _, _)
        go(i, cur, acc) ==
            IF i > Len(s) THEN Append(acc, cur)
            ELSE IF s[i] = sep THEN go(i + 1, <<>>, Append(acc, cur))
            ELSE go(i + 1, Append(cur, s[i]), acc)
    IN go(1, <<>>, <<>>)

\* str(n) of a non-negative int
RECURSIVE str(_)
str(n) == IF n < 10 THEN <<DigitChar[n + 1]>>
          ELSE str(n \div 10) \o <<DigitChar[(n % 10) + 1]>>

IsDigit(c) == \E d \in 1..10 : DigitChar[d] = c

DigitVal(c) == (CHOOSE d \in 1..10 : DigitChar[d] = c) - 1

\* int(s) raises ValueError unless s is an optional sign and then digits
\* (the model's alphabet has no whitespace and no underscore)
IsIntLiteral(s) ==
    LET body == IF Len(s) > 0 /\ s[1] \in {"-", "+"} THEN Tail(s) ELSE s
    IN Len(body) > 0 /\ \A i \in 1..Len(body) : IsDigit(body[i])

int(s) ==
    LET neg  == Len(s) > 0 /\ s[1] = "-"
        body == IF Len(s) > 0 /\ s[1] \in {"-", "+"} THEN Tail(s) ELSE s
        RECURSIVE val(_)
        val(k) == IF k = 0 THEN 0 ELSE 10 * val(k - 1) + DigitVal(body[k])
    IN IF neg THEN 0 - val(Len(body)) ELSE val(Len(body))

----------------------------------------------------------------------------
(* parse_list, convert_tree, convert_branch *)

S3Name == <<"S", "3">>

Unnamed == <<"(", "u", "n", "n", "a", "m", "e", "d", ")">>

\* {'dirs': {}, 'files': []}; a dict is the sequence of its items in insertion order
EmptyNode == [dirs |-> <<>>, files |-> <<>>]

HasKey(d, k) == \E i \in 1..Len(d) : d[i].k = k

KeyIndex(d, k) == CHOOSE i \in 1..Len(d) : d[i].k = k

\* lines 112-118: walk down path, creating the missing directories, append the leaf
RECURSIVE InsertFile(_, _, _)
InsertFile(r, path, leaf) ==
    IF path = <<>> THEN [r EXCEPT !.files = Append(@, leaf)]
    ELSE LET em == Head(path)
             d  == IF HasKey(r.dirs, em) THEN r.dirs
                   ELSE Append(r.dirs, [k |-> em, v |-> EmptyNode])
             i  == KeyIndex(d, em)
         IN [r EXCEPT !.dirs = [d EXCEPT ![i].v = InsertFile(@, Tail(path), leaf)]]

parse_list(fs) ==
    LET RECURSIVE loop(_, _)
        loop(t, n) ==
            IF n > Len(fs) THEN t
            ELSE LET path  == split(fs[n][1], SLASH)
                     fname == path[Len(path)]
                     dirs  == SubSeq(path, 1, Len(path) - 1)
                 IN loop(InsertFile(t, dirs, <<fname, fs[n][2]>>), n + 1)
    IN loop(EmptyNode, 1)

NameOr(name) == IF name = EmptyStr THEN Unnamed ELSE name

RECURSIVE convert_branch(_, _)
convert_branch(branch, name) ==
    [arr |-> <<[name |-> NameOr(name)]>>
             \o [i \in 1..Len(branch.dirs) |->
                     convert_branch(branch.dirs[i].v, branch.dirs[i].k)]
             \o [i \in 1..Len(branch.files) |->
                     [name  |-> NameOr(branch.files[i][1]),
                      dsize |-> branch.files[i][2]]]]

\* tree['dirs'][''] raises KeyError when the root has no '' directory
convert_tree(t, time) ==
    IF HasKey(t.dirs, EmptyStr)
    THEN [ok  |-> TRUE,
          val |-> [arr |-> <<1, 0,
                             [timestamp |-> time, progver |-> "0.1", progname |-> "s3du"],
                             convert_branch(t.dirs[KeyIndex(t.dirs, EmptyStr)].v, S3Name)>>]]
    ELSE [ok |-> FALSE, val |-> "KeyError: ''"]

----------------------------------------------------------------------------
(* The csv module, default dialect: the cache file is a sequence of lines *)

NeedsQuote(field) == \E i \in 1..Len(field) : field[i] \in {COMMA, QUOTE}

\* QUOTE_MINIMAL: a field holding a delimiter or a quote is quoted, its quotes doubled
QuoteField(field) ==
    LET RECURSIVE dbl(_)
        dbl(i) == IF i > Len(field) THEN <<>>
                  ELSE (IF field[i] = QUOTE THEN <<QUOTE, QUOTE>> ELSE <<field[i]>>)
                       \o dbl(i + 1)
    IN IF NeedsQuote(field) THEN <<QUOTE>> \o dbl(1) \o <<QUOTE>> ELSE field

\* csv.writer.writerow: the fields joined by commas (one line of the file)
writerow(fields) ==
    LET RECURSIVE join(_)
        join(i) == IF i > Len(fields) THEN <<>>
                   ELSE (IF i > 1 THEN <<COMMA>> ELSE <<>>) \o QuoteField(fields[i])
                        \o join(i + 1)
    IN join(1)

\* csv.reader on one line: the parser's states are START_FIELD ("start"), IN_FIELD
\* ("field"), IN_QUOTED_FIELD ("quoted") and QUOTE_IN_QUOTED_FIELD ("quote");
\* a blank line is the empty list
reader(line) ==
    LET RECURSIVE go(_, _, _, _)
        go(i, st, cur, acc) ==
            IF i > Len(line) THEN Append(acc, cur)
            ELSE LET c == line[i] IN
                 CASE st = "start" ->
                        IF c = QUOTE THEN go(i + 1, "quoted", cur, acc)
                        ELSE IF c = COMMA THEN go(i + 1, "start", <<>>, Append(acc, cur))
                        ELSE go(i + 1, "field", Append(cur, c), acc)
                   [] st = "field" ->
                        IF c = COMMA THEN go(i + 1, "start", <<>>, Append(acc, cur))
                        ELSE go(i + 1, "field", Append(cur, c), acc)
                   [] st = "quoted" ->
                        IF c = QUOTE THEN go(i + 1, "quote", cur, acc)
                        ELSE go(i + 1, "quoted", Append(cur, c), acc)
                   [] OTHER ->
                        IF c = QUOTE THEN go(i + 1, "quoted", Append(cur, c), acc)
                        ELSE IF c = COMMA THEN go(i + 1, "start", <<>>, Append(acc, cur))
                        ELSE go(i + 1, "field", Append(cur, c), acc)
    IN IF line = <<>> THEN <<>> ELSE go(1, "start", <<>>, <<>>)

----------------------------------------------------------------------------
(* The S3 account seen through boto3 (environment) *)

STANDARD == <<"S", "T", "A", "N", "D", "A", "R", "D">>

GLACIER == <<"G", "L", "A", "C", "I", "E", "R">>

BucketA == <<"a">>

BucketB == <<"b">>

Obj(key, size, class) == [Key |-> key, Size |-> size, StorageClass |-> class]

\* bucket a holds a directory d with two files and a folder marker "d/e/", and a
\* file whose name has a comma; bucket b holds one file and nothing under d/
S3Objects ==
    (BucketA :> << Obj(<<"d", "/", "x">>, 5, STANDARD),
                   Obj(<<"d", "/", "y">>, 120, GLACIER),
                   Obj(<<"d", "/", "e", "/">>, 0, STANDARD),
                   Obj(<<"z", ",", "1">>, 34, GLACIER) >>)
    @@ (BucketB :> << Obj(<<"k">>, 7, STANDARD) >>)

\* s3.list_buckets()['Buckets'], in the order the service gives them
S3Buckets == <<BucketA, BucketB>>

\* s3.list_objects_v2(Bucket, MaxKeys, Prefix [, ContinuationToken]): one page of the
\* keys that start with Prefix.  The response has no 'Contents' when the page is
\* empty and no 'NextContinuationToken' when the page is the last one.  A token is
\* the number of keys already returned; a request without one asks for the first page.
list_objects_v2(world, req) ==
    LET Match(o) == StartsWith(o.Key, req.Prefix)
        all   == SelectSeq(world[req.Bucket], Match)
        from  == IF "ContinuationToken" \in DOMAIN req THEN req.ContinuationToken ELSE 0
        upto  == IF from + req.MaxKeys < Len(all) THEN from + req.MaxKeys ELSE Len(all)
        page  == SubSeq(all, from + 1, upto)
    IN IF page = <<>> THEN [KeyCount |-> 0]
       ELSE IF upto < Len(all)
            THEN [KeyCount |-> Len(page), Contents |-> page, NextContinuationToken |-> upto]
            ELSE [KeyCount |-> Len(page), Contents |-> page]

----------------------------------------------------------------------------
(* s3du.__init__ *)

Truthy(x) == x # None /\ x # EmptyStr

\* the name tempfile.mkstemp gives
TempName == <<"t">>

\* lines 44-46: the prefix, ending with "/" unless empty
NormPrefix(p) ==
    LET q == IF Truthy(p) THEN p ELSE EmptyStr
    IN IF q # EmptyStr /\ ~EndsWith(q, <<SLASH>>) THEN q \o <<SLASH>> ELSE q

\* lines 37-50: the fields of self that main reads
init(cli) ==
    [bucket        |-> cli.bucket,
     prefix        |-> NormPrefix(cli.prefix),
     storage_class |-> cli.storage_class,
     nocache       |-> cli.no_cache,
     keep_file     |-> cli.filename # None,
     filename      |-> IF Truthy(cli.filename) THEN cli.filename ELSE TempName]

\* line 48: no filename given, mkstemp creates the output file
MakesTemp(cli) == ~Truthy(cli.filename)

----------------------------------------------------------------------------
(* cache_files, list_buckets, list_files *)

\* seconds a cache file stays fresh (line 61)
FreshSeconds == 3600

\* UseCache with a cache file of exactly 3600 seconds taken as fresh
UseCacheInclusive(c, a, t) == c.exists /\ ~a.nocache /\ t - c.mtime <= FreshSeconds

\* lines 60-61: the cache file is there, not bypassed, and young enough
UseCache(c, a, t) == c.exists /\ ~a.nocache /\ t - c.mtime < FreshSeconds

\* lines 54-57
list_buckets(a) == IF Truthy(a.bucket) THEN <<a.bucket>> ELSE S3Buckets

\* line 79: one row per item of the page
PageRows(bucket, contents) ==
    [i \in 1..Len(contents) |->
        writerow(<<bucket, contents[i].Key, str(contents[i].Size),
                   contents[i].StorageClass>>)]

\* list_files with the storage-class test the wrong way round
list_files_inverted(lines, storage_class) ==
    LET RECURSIVE loop(_, _)
        loop(n, acc) ==
            IF n > Len(lines) THEN [ok |-> TRUE, val |-> acc]
            ELSE LET row == reader(lines[n]) IN
                 IF Len(row) # 4 THEN [ok |-> FALSE, val |-> <<>>]
                 ELSE IF Truthy(storage_class) /\ storage_class = row[4]
                      THEN loop(n + 1, acc)
                 ELSE IF ~IsIntLiteral(row[3]) THEN [ok |-> FALSE, val |-> <<>>]
                 ELSE loop(n + 1,
                           Append(acc, <<(<<SLASH>> \o row[1] \o <<SLASH>> \o row[2]),
                                         int(row[3])>>))
    IN loop(1, <<>>)

\* list_files with int(size) before the storage-class test
list_files_eager(lines, storage_class) ==
    LET RECURSIVE loop(_, _)
        loop(n, acc) ==
            IF n > Len(lines) THEN [ok |-> TRUE, val |-> acc]
            ELSE LET row == reader(lines[n]) IN
                 IF Len(row) # 4 THEN [ok |-> FALSE, val |-> <<>>]
                 ELSE IF ~IsIntLiteral(row[3]) THEN [ok |-> FALSE, val |-> <<>>]
                 ELSE IF Truthy(storage_class) /\ storage_class # row[4]
                      THEN loop(n + 1, acc)
                 ELSE loop(n + 1,
                           Append(acc, <<(<<SLASH>> \o row[1] \o <<SLASH>> \o row[2]),
                                         int(row[3])>>))
    IN loop(1, <<>>)

\* lines 93-103: ValueError on a row that does not unpack into four fields, and on
\* a size that int() rejects in a row that the storage-class test did not skip
list_files(lines, storage_class) ==
    LET RECURSIVE loop(_, _)
        loop(n, acc) ==
            IF n > Len(lines) THEN [ok |-> TRUE, val |-> acc]
            ELSE LET row == reader(lines[n]) IN
                 IF Len(row) # 4 THEN [ok |-> FALSE, val |-> <<>>]
                 ELSE IF Truthy(storage_class) /\ storage_class # row[4]
                      THEN loop(n + 1, acc)
                 ELSE IF ~IsIntLiteral(row[3]) THEN [ok |-> FALSE, val |-> <<>>]
                 ELSE loop(n + 1,
                           Append(acc, <<(<<SLASH>> \o row[1] \o <<SLASH>> \o row[2]),
                                         int(row[3])>>))
    IN loop(1, <<>>)

----------------------------------------------------------------------------
(* State of a run *)

OutName == <<"o">>

\* the command lines the model runs: -b, -p, -c, -n, -f
Cli ==
    [bucket        : {None, BucketA, BucketB},
     prefix        : {None, <<"d">>},
     storage_class : {None, GLACIER},
     no_cache      : BOOLEAN,
     filename      : {None, EmptyStr, OutName}]

\* seconds between two runs
Deltas == {10, 3600, 7200}

NoArgs == init([bucket |-> None, prefix |-> None, storage_class |-> None,
                no_cache |-> FALSE, filename |-> None])

\* line 74: the arguments of the first request for a bucket
Request(bucket, prefix) == [Bucket |-> bucket, MaxKeys |-> PageSize, Prefix |-> prefix]

\* line 83: args['ContinuationToken'] = token
WithToken(req, token) == ("ContinuationToken" :> token) @@ req

\* mode: what cache_files did; buckets: those still to list, the current one first;
\* req: the arguments of the next request
NoLst == [mode |-> "", buckets |-> <<>>, req |-> Request(None, EmptyStr)]

NoNcdu == [arr |-> <<>>]

NoViewer == [launches |-> 0, status |-> ""]

\* the file named self.filename: whether it is on disk, and whether mkstemp made
\* it; named: whether the file that -f names is on disk, left by an earlier run
NoFile == [exists |-> FALSE, temp |-> FALSE, named |-> FALSE]

\* cache files found at the first run that this program did not write: a size that
\* is no integer in a STANDARD row, the same in a GLACIER row, a row of three
\* fields, a row of five fields
ForeignFiles ==
    { << writerow(<<BucketA, <<"k">>, <<"x", "7">>, STANDARD>>),
         writerow(<<BucketA, <<"m">>, <<"3">>, GLACIER>>) >>,
      << writerow(<<BucketA, <<"k">>, <<"7">>, STANDARD>>),
         writerow(<<BucketA, <<"m">>, <<"3", "x">>, GLACIER>>) >>,
      << writerow(<<BucketA, <<"m">>, <<"3">>, GLACIER>>),
         writerow(<<BucketA, <<"k">>, <<"7">>>>) >>,
      << writerow(<<BucketA, <<"z">>, <<"1">>, <<"3", "4">>, GLACIER>>) >> }

\* exists/lines/mtime are the file; origin, complete, by and src record who wrote
\* it, whether that listing ran to its end, for which bucket and prefix, and the
\* items it wrote
NoCache == [exists |-> FALSE, lines |-> <<>>, mtime |-> 0, origin |-> "none",
            complete |-> FALSE, by |-> <<>>, src |-> <<>>]

Init ==
    /\ now = 10000
    /\ cache \in {NoCache}
                 \cup {[exists |-> TRUE, lines |-> f, mtime |-> now, origin |-> "foreign",
                        complete |-> TRUE, by |-> <<>>, src |-> <<>>] : f \in ForeignFiles}
    /\ runs = 0
    /\ args = NoArgs
    /\ pc = "idle"
    /\ lst = NoLst
    /\ files = <<>>
    /\ tree = EmptyNode
    /\ ncdu = NoNcdu
    /\ outfile = NoFile
    /\ viewer = NoViewer
    /\ err = ""

\* an exception leaves main
Raise(e) == pc' = "failed" /\ err' = e

----------------------------------------------------------------------------
(* The steps of s3du.main *)

\* lines 165-177 and __init__: a new process, some time after the last one (the
\* clock is read as one value during a run)
StartRun ==
    /\ pc \in {"idle", "done", "failed"}
    /\ runs < MaxRuns
    /\ \E cli \in Cli, d \in Deltas :
          /\ now' = now + d
          /\ args' = init(cli)
          /\ outfile' = [exists |-> MakesTemp(cli) \/ outfile.named,
                          temp   |-> MakesTemp(cli),
                          named  |-> outfile.named]
    /\ runs' = runs + 1
    /\ pc' = "cache_files"
    /\ lst' = NoLst
    /\ files' = <<>>
    /\ tree' = EmptyNode
    /\ ncdu' = NoNcdu
    /\ viewer' = NoViewer
    /\ err' = ""
    /\ UNCHANGED cache

\* lines 60-65: return when the cache is fresh, else open the file for writing
CacheFiles ==
    /\ pc = "cache_files"
    /\ IF UseCache(cache, args, now)
       THEN /\ lst' = [lst EXCEPT !.mode = "skipped"]
            /\ pc' = "list_files"
            /\ UNCHANGED cache
       ELSE /\ lst' = [lst EXCEPT !.mode = "written"]
            /\ pc' = "list_buckets"
            /\ cache' = [exists |-> TRUE, lines |-> <<>>, mtime |-> now,
                         origin |-> "program", complete |-> FALSE,
                         by |-> <<args.bucket, args.prefix>>, src |-> <<>>]
    /\ UNCHANGED <<now, runs, args, files, tree, ncdu, outfile, viewer, err>>

\* line 69: the bucket given, or the account's buckets (a call that may fail)
ListBuckets ==
    /\ pc = "list_buckets"
    /\ \/ /\ lst' = [lst EXCEPT !.buckets = list_buckets(args),
                               !.req = IF list_buckets(args) = <<>> THEN @
                                       ELSE Request(Head(list_buckets(args)), args.prefix)]
          /\ pc' = IF list_buckets(args) = <<>> THEN "list_files" ELSE "list_objects"
          /\ cache' = [cache EXCEPT !.complete = (list_buckets(args) = <<>>)]
          /\ UNCHANGED err
       \/ /\ ~Truthy(args.bucket)
          /\ Raise("ClientError")
          /\ UNCHANGED <<lst, cache>>
    /\ UNCHANGED <<now, runs, args, files, tree, ncdu, outfile, viewer>>

\* lines 76-87: one request of the loop, its rows written, then the next page, the
\* next bucket, or the end of the listing (the file is closed)
ListObjects ==
    /\ pc = "list_objects"
    /\ LET bucket == Head(lst.buckets)
           res    == list_objects_v2(S3Objects, lst.req)
       IN \/ /\ "Contents" \in DOMAIN res
             /\ cache' = [cache EXCEPT
                            !.lines = @ \o PageRows(bucket, res.Contents),
                            !.src = @ \o [i \in 1..Len(res.Contents) |->
                                            <<bucket, res.Contents[i]>>],
                            !.complete = ("NextContinuationToken" \notin DOMAIN res
                                          /\ Len(lst.buckets) = 1)]
             /\ IF "NextContinuationToken" \in DOMAIN res
                THEN /\ lst' = [lst EXCEPT
                                     !.req = WithToken(@, res.NextContinuationToken)]
                     /\ pc' = "list_objects"
                ELSE /\ lst' = [lst EXCEPT
                                     !.buckets = Tail(@),
                                     !.req = IF Len(lst.buckets) = 1 THEN @
                                             ELSE Request(lst.buckets[2], args.prefix)]
                     /\ pc' = IF Len(lst.buckets) = 1 THEN "list_files" ELSE "list_objects"
             /\ UNCHANGED err
          \/ /\ "Contents" \notin DOMAIN res
             /\ Raise("KeyError: 'Contents'")
             /\ UNCHANGED <<lst, cache>>
          \/ /\ Raise("ClientError")
             /\ UNCHANGED <<lst, cache>>
    /\ UNCHANGED <<now, runs, args, files, tree, ncdu, outfile, viewer>>

\* line 150
ListFiles ==
    /\ pc = "list_files"
    /\ LET r == list_files(cache.lines, args.storage_class)
       IN IF r.ok
          THEN files' = r.val /\ pc' = "parse_list" /\ UNCHANGED err
          ELSE Raise("ValueError") /\ UNCHANGED files
    /\ UNCHANGED <<cache, now, runs, args, lst, tree, ncdu, outfile, viewer>>

\* line 151
ParseList ==
    /\ pc = "parse_list"
    /\ tree' = parse_list(files)
    /\ pc' = "convert_tree"
    /\ UNCHANGED <<cache, now, runs, args, lst, files, ncdu, outfile, viewer, err>>

\* line 152
ConvertTree ==
    /\ pc = "convert_tree"
    /\ LET r == convert_tree(tree, now)
       IN IF r.ok
          THEN ncdu' = r.val /\ pc' = "write_output" /\ UNCHANGED err
          ELSE Raise(r.val) /\ UNCHANGED ncdu
    /\ UNCHANGED <<cache, now, runs, args, lst, files, tree, outfile, viewer>>

\* lines 154-155
WriteOutput ==
    /\ pc = "write_output"
    /\ outfile' = [outfile EXCEPT !.exists = TRUE, !.named = @ \/ ~outfile.temp]
    /\ pc' = "launch"
    /\ UNCHANGED <<cache, now, runs, args, lst, files, tree, ncdu, viewer, err>>

\* line 157: Popen raises when there is no ncdu binary; else wait() gives ncdu's
\* exit status, which is not looked at
Launch ==
    /\ pc = "launch"
    /\ \/ /\ viewer' = [launches |-> viewer.launches + 1, status |-> "missing"]
          /\ Raise("FileNotFoundError")
       \/ /\ \E code \in {"exit0", "exit1"} :
                viewer' = [launches |-> viewer.launches + 1, status |-> code]
          /\ pc' = "cleanup"
          /\ UNCHANGED err
    /\ UNCHANGED <<cache, now, runs, args, lst, files, tree, ncdu, outfile>>

\* lines 159-162
Cleanup ==
    /\ pc = "cleanup"
    /\ outfile' = IF ~args.keep_file THEN [outfile EXCEPT !.exists = FALSE] ELSE outfile
    /\ pc' = "done"
    /\ UNCHANGED <<cache, now, runs, args, lst, files, tree, ncdu, viewer, err>>

Next ==
    \/ StartRun
    \/ CacheFiles
    \/ ListBuckets
    \/ ListObjects
    \/ ListFiles
    \/ ParseList
    \/ ConvertTree
    \/ WriteOutput
    \/ Launch
    \/ Cleanup

Spec == Init /\ [][Next]_vars

----------------------------------------------------------------------------
(* parse_list and convert_tree on their own, on any short list of files *)

TreePaths ==
    { <<SLASH, "b", SLASH, "d", SLASH, "x">>,
      <<SLASH, "b", SLASH, "d", SLASH, "y">>,
      <<SLASH, "b", SLASH, "d">>,
      <<SLASH, "b", SLASH, "d", SLASH>>,
      <<SLASH, "b", SLASH, SLASH, "x">>,
      <<SLASH, "c", SLASH, "x">> }

TreeSizes == {0, 12}

TreeInputs ==
    UNION { [1..n -> TreePaths \X TreeSizes] : n \in 0..MaxFiles }

TreeInit ==
    /\ now = 10000
    /\ cache = NoCache
    /\ runs = 1
    /\ args = NoArgs
    /\ pc = "parse_list"
    /\ lst = NoLst
    /\ files \in TreeInputs
    /\ tree = EmptyNode
    /\ ncdu = NoNcdu
    /\ outfile = NoFile
    /\ viewer = NoViewer
    /\ err = ""

TreeNext ==
    \/ ParseList
    \/ ConvertTree

SpecTree == TreeInit /\ [][TreeNext]_vars

----------------------------------------------------------------------------
(* What the properties speak about *)

\* list_files has returned in this run
ListFilesReturned ==
    \/ pc \in {"parse_list", "convert_tree", "write_output", "launch", "cleanup", "done"}
    \/ pc = "failed" /\ err \in {"KeyError: ''", "FileNotFoundError"}

\* list_files has returned or raised in this run
ListFilesRan == ListFilesReturned \/ (pc = "failed" /\ err = "ValueError")

\* convert_tree has returned or raised in this run
ConvertTreeRan ==
    \/ pc \in {"write_output", "launch", "cleanup", "done"}
    \/ pc = "failed" /\ err \in {"KeyError: ''", "FileNotFoundError"}

\* the run is over and had reached the launch of the viewer
EndedAfterLaunch == pc \in {"done", "failed"} /\ viewer.launches > 0

Count(seq, x) == Cardinality({i \in 1..Len(seq) : seq[i] = x})

\* the objects of a bucket under a prefix, in the bucket's order
Matching(bucket, prefix) ==
    LET Match(o) == StartsWith(o.Key, prefix)
    IN SelectSeq(S3Objects[bucket], Match)

\* the (bucket, object) pairs of the buckets, bucket after bucket
RECURSIVE ObjectsOf(_, _)
ObjectsOf(buckets, prefix) ==
    IF buckets = <<>> THEN <<>>
    ELSE [i \in 1..Len(Matching(Head(buckets), prefix)) |->
             <<Head(buckets), Matching(Head(buckets), prefix)[i]>>]
         \o ObjectsOf(Tail(buckets), prefix)

\* the record list_files is to give for a (bucket, object) pair
RecordOf(bo) == << <<SLASH>> \o bo[1] \o <<SLASH>> \o bo[2].Key, bo[2].Size >>

\* the records of the pairs whose class passes the filter, in order
RecordsOf(pairs, class) ==
    LET Pass(bo) == ~Truthy(class) \/ bo[2].StorageClass = class
        kept == SelectSeq(pairs, Pass)
    IN [i \in 1..Len(kept) |-> RecordOf(kept[i])]

\* the (position, size) of every leaf object below a serialized directory: the
\* position is the names of the directories from the root, then the leaf's name
RECURSIVE LeavesOf(_, _)
LeavesOf(a, pos) ==
    LET here == Append(pos, a.arr[1].name)
        RECURSIVE walk(_)
        walk(i) ==
            IF i > Len(a.arr) THEN <<>>
            ELSE (IF "arr" \in DOMAIN a.arr[i]
                  THEN LeavesOf(a.arr[i], here)
                  ELSE << <<Append(here, a.arr[i].name), a.arr[i].dsize>> >>)
                 \o walk(i + 1)
    IN walk(2)

\* where the path's segments put a file: below the root S3, an empty name shown
\* as (unnamed)
ExpectedLeaf(f) ==
    LET segs == split(f[1], SLASH)
    IN << <<S3Name>> \o [i \in 1..(Len(segs) - 1) |-> NameOr(segs[i + 1])], f[2] >>

NoDuplicatePaths(fs) == \A i, j \in 1..Len(fs) : i # j => fs[i][1] # fs[j][1]

LeavesMatchFiles ==
    LET got  == LeavesOf(ncdu.arr[4], <<>>)
        want == [i \in 1..Len(files) |-> ExpectedLeaf(files[i])]
    IN /\ Len(got) = Len(files)
       /\ \A i \in 1..Len(want) : Count(got, want[i]) = Count(want, want[i])

----------------------------------------------------------------------------
(* Properties *)

\* C1: for every list of (path, size) pairs without duplicate paths, parse_list
\* then convert_tree gives a serialized structure whose leaves are exactly the
\* input pairs, each at the position of its path's segments with its size.
TreeRoundTrip ==
    (pc \notin {"parse_list", "convert_tree"} /\ NoDuplicatePaths(files))
        => (pc = "write_output" /\ LeavesMatchFiles)

\* The same for the lists that have at least one pair
TreeRoundTripNonEmpty ==
    (pc \notin {"parse_list", "convert_tree"} /\ NoDuplicatePaths(files) /\ files # <<>>)
        => (pc = "write_output" /\ LeavesMatchFiles)

\* C2: when list_files gives no record, nothing fails: parse_list gives the empty
\* root and convert_tree gives [1, 0, metadata, root directory without children].
EmptyListingSerialized ==
    (ConvertTreeRan /\ files = <<>>)
        => /\ err # "KeyError: ''"
           /\ tree = EmptyNode
           /\ ncdu = [arr |-> <<1, 0,
                                [timestamp |-> now, progver |-> "0.1", progname |-> "s3du"],
                                [arr |-> <<[name |-> S3Name]>>]>>]

\* C3: a refresh whose requests are all answered ends, and the cache then holds
\* the items of every page of every bucket of list_buckets, in order.
RefreshListsEveryPage ==
    (lst.mode = "written" /\ pc \notin {"list_buckets", "list_objects"}
                          /\ err # "ClientError")
        => /\ err # "KeyError: 'Contents'"
           /\ cache.src = ObjectsOf(list_buckets(args), args.prefix)
           /\ cache.lines = [i \in 1..Len(cache.src) |->
                                writerow(<<cache.src[i][1], cache.src[i][2].Key,
                                           str(cache.src[i][2].Size),
                                           cache.src[i][2].StorageClass>>)]

\* The same for a refresh none of whose requests matches no key
RefreshListsEveryNonEmptyPage ==
    (lst.mode = "written" /\ pc \notin {"list_buckets", "list_objects"}
                          /\ err # "ClientError"
                          /\ \A i \in 1..Len(list_buckets(args)) :
                                 Matching(list_buckets(args)[i], args.prefix) # <<>>)
        => /\ err # "KeyError: 'Contents'"
           /\ cache.src = ObjectsOf(list_buckets(args), args.prefix)
           /\ cache.lines = [i \in 1..Len(cache.src) |->
                                writerow(<<cache.src[i][1], cache.src[i][2].Key,
                                           str(cache.src[i][2].Size),
                                           cache.src[i][2].StorageClass>>)]

\* C4: cache_files returns without listing and leaves the file alone exactly when
\* the file exists, is less than 3600 seconds old and --no-cache was not given;
\* otherwise the file is emptied and rewritten, and a listing that reaches its end
\* leaves in it the objects asked for.
CacheSkippedIffFresh ==
    /\ [][(pc = "cache_files" /\ pc' # "cache_files") =>
            IF cache.exists /\ now - cache.mtime < 3600 /\ ~args.nocache
            THEN pc' = "list_files" /\ lst'.mode = "skipped" /\ cache' = cache
            ELSE /\ pc' = "list_buckets" /\ lst'.mode = "written"
                 /\ cache'.exists /\ cache'.lines = <<>> /\ cache'.mtime = now]_vars
    /\ []((lst.mode = "written" /\ ListFilesRan)
            => /\ cache.mtime = now
               /\ cache.src = ObjectsOf(list_buckets(args), args.prefix))

FreshCacheUsed == lst.mode = "skipped" /\ now - cache.mtime = 10 /\ pc = "list_files"

\* C5: list_files gives, in the order of the cache, the rows whose storage class
\* is the one asked for, or every row when none is asked for, each as
\* ('/' + bucket + '/' + key, size as the integer that was written); the rows this
\* program wrote never make it fail.
FilterReturnsMatchingRows ==
    /\ (ListFilesReturned /\ cache.origin = "program")
          => files = RecordsOf(cache.src, args.storage_class)
    /\ (ListFilesReturned /\ Truthy(args.storage_class))
          => Len(files) = Cardinality({i \in 1..Len(cache.lines) :
                                          reader(cache.lines[i])[4] = args.storage_class})
    /\ (ListFilesReturned /\ ~Truthy(args.storage_class))
          => Len(files) = Len(cache.lines)
    /\ (pc = "failed" /\ err = "ValueError") => cache.origin = "foreign"

FilterSkipsSomeRows ==
    /\ ListFilesReturned
    /\ cache.origin = "program"
    /\ args.storage_class = GLACIER
    /\ Len(files) > 0
    /\ Len(files) < Len(cache.lines)

ArityIsFour(line) == Len(reader(line)) = 4

\* C6 as claimed: list_files raises whenever some row has not four fields or has a
\* size that is no integer, whatever the filter and the row's class.
AnyMalformedRowFails ==
    (ListFilesRan /\ \E i \in 1..Len(cache.lines) :
                        \/ ~ArityIsFour(cache.lines[i])
                        \/ ~IsIntLiteral(reader(cache.lines[i])[3]))
        => (pc = "failed" /\ err = "ValueError")

\* C6 as amended: list_files raises exactly when some row has not four fields, or
\* a row that the storage-class filter does not skip has a size that is no
\* integer; then no record list is returned.
CheckedRowMalformedFails ==
    ListFilesRan =>
        /\ (pc = "failed" /\ err = "ValueError")
              <=> \E i \in 1..Len(cache.lines) :
                     \/ ~ArityIsFour(cache.lines[i])
                     \/ /\ ~IsIntLiteral(reader(cache.lines[i])[3])
                        /\ \/ ~Truthy(args.storage_class)
                           \/ reader(cache.lines[i])[4] = args.storage_class
        /\ err = "ValueError" => files = <<>>

MalformedRowRejected ==
    /\ pc = "failed" /\ err = "ValueError"
    /\ args.storage_class = GLACIER
    /\ \A i \in 1..Len(cache.lines) : ArityIsFour(cache.lines[i])

\* C7: after a run that reached the launch of the viewer, the output file is on
\* disk exactly when -f named it, and a file that mkstemp made is gone.
OutputKeptIffNamed ==
    EndedAfterLaunch =>
        /\ outfile.exists <=> args.keep_file
        /\ outfile.temp => ~outfile.exists

\* C8: the viewer is launched once, and a missing binary or a non-zero exit
\* status ends the run in an error.
ViewerFailureEndsInError ==
    EndedAfterLaunch =>
        /\ viewer.launches = 1
        /\ viewer.status \in {"missing", "exit1"} => pc = "failed"

\* C9: the records a run reads from a cache that a finished listing wrote are the
\* objects of the bucket(s) and prefix this run asked for.
ShownRecordsAreTheRequested ==
    (ListFilesReturned /\ cache.origin = "program" /\ cache.complete)
        => files = RecordsOf(ObjectsOf(list_buckets(args), args.prefix),
                             args.storage_class)

\* C10: a cache file that a run takes as fresh holds a listing that ran to its end.
FreshCacheIsComplete ==
    lst.mode = "skipped" => cache.complete

====
